---- MODULE Spec2Model ----
(***************************************************************************)
(* Resilient Relay: the POST /relay handler of server.ts together with the *)
(* IdempotencyStore, the BoundedQueue and retryWithBackoff it drives.      *)
(*                                                                         *)
(* Node runs a handler to completion between two awaits, so one action is  *)
(* one synchronous segment of a handler:                                   *)
(*   Relay             arrival up to the first await (dedup check,         *)
(*                     enqueue, dequeue, first callDownstream)             *)
(*   DownstreamSettles the awaited attempt settles; on success or on the   *)
(*                     last failure the handler runs on to its response    *)
(*   SleepDone         the backoff timer fires and the next attempt starts *)
(*   Cleanup           the store's setInterval callback                    *)
(*   Tick              Date.now() moves forward                            *)
(* Date.now() is the wall clock; nothing in the code ties it to the timers *)
(* a handler waits on, so the clock advances independently of them.        *)
(*                                                                         *)
(* Specifications:                                                         *)
(*   Spec        the handler with keyed requests and the flaky client      *)
(*   KeylessSpec the handler with keyed and keyless requests side by side  *)
(*   FairSpec    the handler against a downstream that may never answer,   *)
(*               with the timers firing                                    *)
(*   StoreSpec   the IdempotencyStore called directly                      *)
(*   StoreApiSpec     the same with clear(), which server.ts never calls   *)
(*   StoreFairSpec    the same with the clock advancing and the cleanup    *)
(*                    timer firing                                         *)
(*   QueueSpec   a BoundedQueue of any capacity called directly (bq)       *)
(*   RetrySpec   retryWithBackoff called with any maxRetries against any   *)
(*               operation (rt)                                            *)
(*   RetryFairSpec    the same with the timers firing                      *)
(*   LateSpec         the same with abandoned operations settling late and *)
(*                    stale timeout timers firing                          *)
(*   DelaySpec        calculateDelayWithJitter called directly             *)
(*   OrchestratorSpec the handler over a queue of any capacity             *)
(***************************************************************************)
EXTENDS Integers, Sequences, FiniteSets, TLC

VARIABLES now, store, queue, req, failures, lastCall, bq, rt

vars == <<now, store, queue, req, failures, lastCall, bq, rt>>

----------------------------------------------------------------------------
(* Bounds of the model *)

MaxReq == 3
MaxTicks == 2
MaxFailures == 4
MaxMixed == 2
MaxCapacity == 3
MaxCalls == 5
MaxRetriesArg == 3
MaxAttemptIndex == 16
RandomScale == 4

----------------------------------------------------------------------------
(* config.ts *)

maxRetries == 3
initialRetryDelayMs == 100
maxRetryDelayMs == 10000
downstreamLatencyMs == 100
requestTimeoutMs == 5000
queueCapacity == 100
idempotencyTtlMs == 86400000

(* The error strings callDownstream picks from *)
errors == { "ECONNREFUSED: Connection refused",
            "ETIMEDOUT: Request timeout",
            "HTTP 500: Internal Server Error",
            "HTTP 503: Service Unavailable" }

----------------------------------------------------------------------------
(* Inputs *)

undefined == "<undefined>"
null == [isNull |-> TRUE]

Reqs == 1..MaxReq
(* The idempotency-key header of the requests POST /relay receives *)
IdempotencyKeys == {"k1"}
(* The keys the store is called with directly *)
StoreKeys == {"k1", "k2"}
StatusCodes == {200, 502}
Results == {"r1", "r2"}
(* Each request carries a payload of its own *)
BodyOf(h) == h
(* The errors a run draws from the list *)
RandomErrors == {"ECONNREFUSED: Connection refused", "HTTP 503: Service Unavailable"}
TickSteps == {1, idempotencyTtlMs}
(* The capacities a BoundedQueue is constructed with, and what is enqueued *)
CapacityArgs == -1..MaxCapacity
QueueItems == {"a", "b"}
(* The maxRetries retryWithBackoff is called with, the errors its          *)
(* operation rejects with and the time an attempt takes to settle          *)
RetryCounts == -1..MaxRetriesArg
OperationErrors == {"e1", "e2"}
OperationLatencies == {downstreamLatencyMs, requestTimeoutMs + 1}
(* Math.random() returns a number in [0, 1): the draw n stands for         *)
(* n / RandomScale                                                         *)
Randoms == 0..(RandomScale - 1)
(* The arguments calculateDelayWithJitter is called with *)
AttemptIndexes == 0..MaxAttemptIndex
InitialDelays == {1, 3, initialRetryDelayMs}
MaxDelays == {1, 50, maxRetryDelayMs}

(* A test that takes the absent header for a key *)
Truthy_Any(k) == k # ""

(* JavaScript truthiness of the idempotency-key header value *)
Truthy(k) == k # undefined /\ k # ""

----------------------------------------------------------------------------
(* IdempotencyStore: this.store is a Map, modelled as a function whose     *)
(* domain is the set of keys present.                                      *)

(* An expiry test that is off by one at the end of the window *)
isExpired_AtTtl(value, t) == t >= value.cachedTime + idempotencyTtlMs

isExpired(value, t) == t > value.cachedTime + idempotencyTtlMs

mapSet(s, k, v) == [x \in DOMAIN s \cup {k} |-> IF x = k THEN v ELSE s[x]]

mapDelete(s, k) == [x \in DOMAIN s \ {k} |-> s[x]]

(* A get that slides the TTL window on every hit *)
get_Touches(s, idempotencyKey, t) ==
    IF idempotencyKey \notin DOMAIN s
    THEN [ret |-> null, store |-> s]
    ELSE IF t > s[idempotencyKey].cachedTime + idempotencyTtlMs
         THEN [ret |-> null, store |-> mapDelete(s, idempotencyKey)]
         ELSE [ret |-> s[idempotencyKey],
               store |-> mapSet(s, idempotencyKey,
                                [s[idempotencyKey] EXCEPT !.cachedTime = t])]

(* get: the value returned and the store it leaves behind *)
get(s, idempotencyKey, t) ==
    IF idempotencyKey \notin DOMAIN s
    THEN [ret |-> null, store |-> s]
    ELSE IF isExpired(s[idempotencyKey], t)
         THEN [ret |-> null, store |-> mapDelete(s, idempotencyKey)]
         ELSE [ret |-> s[idempotencyKey], store |-> s]

(* A markInFlight that leaves an existing record alone *)
markInFlight_IfAbsent(s, idempotencyKey, t) ==
    IF idempotencyKey \in DOMAIN s
    THEN s
    ELSE mapSet(s, idempotencyKey, [cachedTime |-> t, status |-> "in_flight"])

(* A markInFlight that keeps the other fields of an existing record *)
markInFlight_KeepsFields(s, idempotencyKey, t) ==
    IF idempotencyKey \in DOMAIN s
    THEN mapSet(s, idempotencyKey,
                [s[idempotencyKey] EXCEPT !.cachedTime = t, !.status = "in_flight"])
    ELSE mapSet(s, idempotencyKey, [cachedTime |-> t, status |-> "in_flight"])

(* A markInFlight that stores the time the record expires *)
markInFlight_StoresExpiry(s, idempotencyKey, t) ==
    mapSet(s, idempotencyKey,
           [cachedTime |-> t + idempotencyTtlMs, status |-> "in_flight"])

markInFlight(s, idempotencyKey, t) ==
    mapSet(s, idempotencyKey, [cachedTime |-> t, status |-> "in_flight"])

(* A markCompleted that takes an expired record for none *)
markCompleted_DropsExpired(s, idempotencyKey, statusCode, data, t) ==
    IF idempotencyKey \notin DOMAIN s \/ isExpired(s[idempotencyKey], t)
    THEN mapSet(s, idempotencyKey,
                [cachedTime |-> t, status |-> "completed",
                 httpStatusCode |-> statusCode, data |-> data])
    ELSE mapSet(s, idempotencyKey,
                [cachedTime |-> s[idempotencyKey].cachedTime,
                 status |-> "completed",
                 httpStatusCode |-> statusCode, data |-> data])

(* A markCompleted that restarts the TTL at completion *)
markCompleted_ResetsTtl(s, idempotencyKey, statusCode, data, t) ==
    mapSet(s, idempotencyKey,
           [cachedTime |-> t, status |-> "completed",
            httpStatusCode |-> statusCode, data |-> data])

markCompleted(s, idempotencyKey, statusCode, data, t) ==
    IF idempotencyKey \notin DOMAIN s
    THEN mapSet(s, idempotencyKey,
                [cachedTime |-> t, status |-> "completed",
                 httpStatusCode |-> statusCode, data |-> data])
    ELSE mapSet(s, idempotencyKey,
                [cachedTime |-> s[idempotencyKey].cachedTime,
                 status |-> "completed",
                 httpStatusCode |-> statusCode, data |-> data])

(* A sweep that spares the records of requests still marked in flight *)
cleanup_KeepsInFlight(s, t) ==
    [k \in {x \in DOMAIN s : ~isExpired(s[x], t) \/ s[x].status = "in_flight"}
        |-> s[k]]

(* A sweep that stops after the first record it deletes *)
cleanup_StopsAtFirst(s, t) ==
    LET expired == {x \in DOMAIN s : isExpired(s[x], t)}
    IN  IF expired = {}
        THEN s
        ELSE mapDelete(s, CHOOSE x \in expired : TRUE)

cleanup(s, t) == [k \in {x \in DOMAIN s : ~isExpired(s[x], t)} |-> s[k]]

size(s) == Cardinality(DOMAIN s)

(* this.store.clear() *)
clear(s) == [k \in {} |-> null]

----------------------------------------------------------------------------
(* BoundedQueue: this.queue is the sequence q, this.capacity the capacity  *)
(* the constructor was given.                                              *)

(* A constructor that lets a capacity of zero through *)
BoundedQueue_AllowsZero(capacity) ==
    IF capacity < 0
    THEN [threw |-> TRUE, error |-> "Queue capacity must be positive"]
    ELSE [threw |-> FALSE, queue |-> <<>>, capacity |-> capacity]

(* The constructor: it throws, or yields an empty queue *)
BoundedQueue(capacity) ==
    IF capacity <= 0
    THEN [threw |-> TRUE, error |-> "Queue capacity must be positive"]
    ELSE [threw |-> FALSE, queue |-> <<>>, capacity |-> capacity]

(* A fullness test that lets one item too many in *)
isFull_Over(q, capacity) == Len(q) > capacity

isFull(q, capacity) == Len(q) >= capacity

(* An emptiness test that takes a single item for none *)
isEmpty_OffByOne(q) == Len(q) <= 1

isEmpty(q) == Len(q) = 0

(* An enqueue that makes room by dropping the oldest item when full *)
enqueue_DropsOldest(q, capacity, data, t) ==
    IF isFull(q, capacity)
    THEN [ret |-> FALSE,
          queue |-> Append(Tail(q), [data |-> data, enqueuedAt |-> t])]
    ELSE [ret |-> TRUE, queue |-> Append(q, [data |-> data, enqueuedAt |-> t])]

enqueue(q, capacity, data, t) ==
    IF isFull(q, capacity)
    THEN [ret |-> FALSE, queue |-> q]
    ELSE [ret |-> TRUE, queue |-> Append(q, [data |-> data, enqueuedAt |-> t])]

(* A dequeue that takes the newest item *)
dequeue_Lifo(q) ==
    IF isEmpty(q)
    THEN [ret |-> null, queue |-> q]
    ELSE [ret |-> q[Len(q)], queue |-> SubSeq(q, 1, Len(q) - 1)]

(* A dequeue that returns the oldest item and empties the queue *)
dequeue_Clears(q) ==
    IF isEmpty(q)
    THEN [ret |-> null, queue |-> q]
    ELSE [ret |-> Head(q), queue |-> <<>>]

(* A dequeue that returns the oldest item and leaves it in the queue *)
dequeue_Peeks(q) ==
    IF isEmpty(q)
    THEN [ret |-> null, queue |-> q]
    ELSE [ret |-> Head(q), queue |-> q]

dequeue(q) ==
    IF isEmpty(q)
    THEN [ret |-> null, queue |-> q]
    ELSE [ret |-> Head(q), queue |-> Tail(q)]

queueSize(q) == Len(q)

getCapacity(q, capacity) == capacity

(* A utilization that forgets the factor of 100 *)
getUtilization_Fraction(q, capacity) == [num |-> Len(q), den |-> capacity]

(* (length / capacity) * 100, kept as the fraction num/den *)
getUtilization(q, capacity) == [num |-> Len(q) * 100, den |-> capacity]

----------------------------------------------------------------------------
(* flaky-client.ts: what callDownstream resolves to, given its two draws   *)
(* of Math.random (fail or not, which error) and the time it settles.      *)

callDownstream(data, shouldFail, randomError, t) ==
    IF shouldFail
    THEN [success |-> FALSE, error |-> randomError]
    ELSE [success |-> TRUE,
          data |-> [message |-> "Processed successfully",
                    receivedData |-> data,
                    timestamp |-> t]]

(* A wrapper that returns result.data without looking at result.success *)
relayOperation_PassesFailure(queueItem, shouldFail, randomError, t) ==
    LET result == callDownstream(queueItem.data.data, shouldFail, randomError, t)
    IN  IF ~result.success
        THEN [threw |-> FALSE, value |-> undefined]
        ELSE [threw |-> FALSE, value |-> result.data]

(* The async function server.ts hands to retryWithBackoff: a failed result *)
(* is thrown, a successful one returns its data.                           *)
relayOperation(queueItem, shouldFail, randomError, t) ==
    LET result == callDownstream(queueItem.data.data, shouldFail, randomError, t)
    IN  IF ~result.success
        THEN [threw |-> TRUE,
              error |-> IF result.error # "" THEN result.error
                        ELSE "Downstream failed"]
        ELSE [threw |-> FALSE, value |-> result.data]

----------------------------------------------------------------------------
(* retry-manager.ts *)

(* `Operation timed out after ${timeoutMs}ms` *)
TimeoutMessage == "Operation timed out after timeoutMs ms"

(* Promise.race of the operation against the timeout timer: the operation *)
(* settles after latencyMs, the timer rejects after timeoutMs, and libuv   *)
(* runs timers in the order they fall due.                                 *)
(* A timeout that is only looked at once the operation has settled *)
withTimeout_ChecksAfterwards(settled, latencyMs, timeoutMs) ==
    IF settled = [pending |-> TRUE]
    THEN settled
    ELSE IF latencyMs <= timeoutMs
         THEN settled
         ELSE [threw |-> TRUE, error |-> TimeoutMessage]

(* A race without the timer: the operation is simply awaited *)
withTimeout_NoTimer(settled, latencyMs, timeoutMs) == settled

withTimeout(settled, latencyMs, timeoutMs) ==
    IF latencyMs <= timeoutMs
    THEN settled
    ELSE [threw |-> TRUE, error |-> TimeoutMessage]

(* A promise that never settles *)
Pending == [pending |-> TRUE]

Min(a, b) == IF a <= b THEN a ELSE b

(* Math.min(initialDelayMs * Math.pow(2, attempt), maxDelayMs). The        *)
(* product is exact in a double until it overflows to Infinity, so the     *)
(* minimum is the mathematical one; it is computed here by doubling and    *)
(* capping at every step, which gives the same number without the large    *)
(* intermediate.                                                           *)
RECURSIVE cappedDelay(_, _, _)
cappedDelay(attempt, initialDelayMs, maxDelayMs) ==
    IF attempt = 0
    THEN Min(initialDelayMs, maxDelayMs)
    ELSE Min(2 * cappedDelay(attempt - 1, initialDelayMs, maxDelayMs), maxDelayMs)

(* A jitter drawn over maxDelayMs whatever the attempt *)
calculateDelayWithJitter_IgnoresBackoff(attempt, initialDelayMs, maxDelayMs, random) ==
    (random * maxDelayMs) \div RandomScale

(* Math.floor(Math.random() * cappedDelay) *)
calculateDelayWithJitter(attempt, initialDelayMs, maxDelayMs, random) ==
    (random * cappedDelay(attempt, initialDelayMs, maxDelayMs)) \div RandomScale

(* A loop that gives up one attempt early *)
retryLoopStep_StopsEarly(options, attempt, settled, startTime, t) ==
    IF ~settled.threw
    THEN [next |-> "return",
          result |-> [success |-> TRUE, data |-> settled.value,
                      attempts |-> attempt + 1, totalTimeMs |-> t - startTime]]
    ELSE IF attempt >= options.maxRetries - 1
         THEN [next |-> "return",
               result |-> [success |-> FALSE, error |-> settled.error,
                           attempts |-> options.maxRetries + 1,
                           totalTimeMs |-> t - startTime]]
         ELSE [next |-> "sleep", lastError |-> settled.error]

(* A loop that reports the index of the attempt instead of its number *)
retryLoopStep_CountsFromZero(options, attempt, settled, startTime, t) ==
    IF ~settled.threw
    THEN [next |-> "return",
          result |-> [success |-> TRUE, data |-> settled.value,
                      attempts |-> attempt, totalTimeMs |-> t - startTime]]
    ELSE IF attempt = options.maxRetries
         THEN [next |-> "return",
               result |-> [success |-> FALSE, error |-> settled.error,
                           attempts |-> options.maxRetries + 1,
                           totalTimeMs |-> t - startTime]]
         ELSE [next |-> "sleep", lastError |-> settled.error]

(* A loop that reports the retries made instead of the attempts *)
retryLoopStep_ReportsRetries(options, attempt, settled, startTime, t) ==
    IF ~settled.threw
    THEN [next |-> "return",
          result |-> [success |-> TRUE, data |-> settled.value,
                      attempts |-> attempt + 1, totalTimeMs |-> t - startTime]]
    ELSE IF attempt = options.maxRetries
         THEN [next |-> "return",
               result |-> [success |-> FALSE, error |-> settled.error,
                           attempts |-> options.maxRetries,
                           totalTimeMs |-> t - startTime]]
         ELSE [next |-> "sleep", lastError |-> settled.error]

(* A loop that gives up at once when an attempt timed out *)
retryLoopStep_TimeoutFatal(options, attempt, settled, startTime, t) ==
    IF ~settled.threw
    THEN [next |-> "return",
          result |-> [success |-> TRUE, data |-> settled.value,
                      attempts |-> attempt + 1, totalTimeMs |-> t - startTime]]
    ELSE IF attempt = options.maxRetries \/ settled.error = TimeoutMessage
         THEN [next |-> "return",
               result |-> [success |-> FALSE, error |-> settled.error,
                           attempts |-> options.maxRetries + 1,
                           totalTimeMs |-> t - startTime]]
         ELSE [next |-> "sleep", lastError |-> settled.error]

(* A loop whose catch block never assigns lastError *)
retryLoopStep_ForgetsError(options, attempt, settled, startTime, t) ==
    IF ~settled.threw
    THEN [next |-> "return",
          result |-> [success |-> TRUE, data |-> settled.value,
                      attempts |-> attempt + 1, totalTimeMs |-> t - startTime]]
    ELSE IF attempt = options.maxRetries
         THEN [next |-> "return",
               result |-> [success |-> FALSE, error |-> "Unknown error",
                           attempts |-> options.maxRetries + 1,
                           totalTimeMs |-> t - startTime]]
         ELSE [next |-> "sleep", lastError |-> "Unknown error"]

(* A loop without the break: it sleeps after the last attempt as well *)
retryLoopStep_SleepsAfterLast(options, attempt, settled, startTime, t) ==
    IF ~settled.threw
    THEN [next |-> "return",
          result |-> [success |-> TRUE, data |-> settled.value,
                      attempts |-> attempt + 1, totalTimeMs |-> t - startTime]]
    ELSE [next |-> "sleep", lastError |-> settled.error]

(* One turn of the for loop once the awaited attempt has settled: return   *)
(* success, break out after the last attempt, or go to sleep.              *)
retryLoopStep(options, attempt, settled, startTime, t) ==
    IF ~settled.threw
    THEN [next |-> "return",
          result |-> [success |-> TRUE, data |-> settled.value,
                      attempts |-> attempt + 1, totalTimeMs |-> t - startTime]]
    ELSE IF attempt = options.maxRetries
         THEN [next |-> "return",
               result |-> [success |-> FALSE, error |-> settled.error,
                           attempts |-> options.maxRetries + 1,
                           totalTimeMs |-> t - startTime]]
         ELSE [next |-> "sleep", lastError |-> settled.error]

(* A race that hands a late settlement to whoever awaits at that moment:  *)
(* a late value ends the attempt then awaited.                             *)
lateSettle_ResumesLoop(r, settled, t) ==
    IF r.pc = "awaiting" /\ ~settled.threw
    THEN [r EXCEPT !.pc = "returned",
                   !.result = [success |-> TRUE, data |-> settled.value,
                               attempts |-> r.attempt + 1,
                               totalTimeMs |-> t - r.startTime]]
    ELSE r

(* An input of Promise.race settling after the race is decided: the        *)
(* promise of the race is settled once, a later resolve or reject of it is *)
(* ignored and resumes nobody.                                             *)
lateSettle(r, settled, t) == r

(* The options server.ts runs with: the defaults taken from config *)
defaultOptions ==
    [maxRetries |-> maxRetries, initialDelayMs |-> initialRetryDelayMs,
     maxDelayMs |-> maxRetryDelayMs, timeoutMs |-> requestTimeoutMs]

retryStep(attempt, settled, startTime, t) ==
    retryLoopStep(defaultOptions, attempt, settled, startTime, t)

(* The head of the for loop, at entry and after each sleep: the next       *)
(* attempt is invoked while attempt <= maxRetries, otherwise the function  *)
(* falls through to its closing return.                                    *)
retryLoopHead(options, attempt, lastError, startTime, t) ==
    IF attempt <= options.maxRetries
    THEN [next |-> "invoke"]
    ELSE [next |-> "return",
          result |-> [success |-> FALSE, error |-> lastError,
                      attempts |-> options.maxRetries + 1,
                      totalTimeMs |-> t - startTime]]

----------------------------------------------------------------------------
(* server.ts: app.post('/relay') *)

(* A request that has not arrived *)
NewReq ==
    [pc |-> "new", idempotencyKey |-> undefined, body |-> 0, startTime |-> 0,
     cached |-> null, queueItem |-> null, attempt |-> 0, lastError |-> "Unknown error",
     calls |-> 0, enqueues |-> 0, dequeues |-> 0, completions |-> 0,
     trace |-> <<>>, status |-> 0, response |-> null]

respond(r, status, response) ==
    [r EXCEPT !.pc = "done", !.status = status, !.response = response,
              !.trace = Append(@, "response")]

(* cached.httpStatusCode || 200 *)
cachedStatusCode(cached) ==
    IF "httpStatusCode" \in DOMAIN cached /\ cached.httpStatusCode # 0
    THEN cached.httpStatusCode
    ELSE 200

(* The branch for a completed record: the cached response is sent as is *)
respondCached(r, cached) ==
    respond(r, cachedStatusCode(cached), cached.data)

(* The branch for an in_flight record *)
respondConflict(r, idempotencyKey, t) ==
    respond(r, 409,
        [success |-> FALSE,
         error |-> "Request with this idempotency key is already being processed",
         metadata |-> [idempotencyKey |-> idempotencyKey,
                       processingTimeMs |-> t - r.startTime]])

(* An idempotency check without the cached branch: a completed record is  *)
(* answered as a conflict, like any other record found.                    *)
idempotencyCheck_NoReplay(r, s, idempotencyKey, t) ==
    IF ~Truthy(idempotencyKey)
    THEN [answered |-> FALSE, req |-> r, store |-> s]
    ELSE
    LET looked == get(s, idempotencyKey, t)
        cached == looked.ret
        r1 == [r EXCEPT !.cached = cached, !.trace = Append(@, "get")]
    IN  IF cached # null
        THEN [answered |-> TRUE, req |-> respondConflict(r1, idempotencyKey, t),
              store |-> looked.store]
        ELSE [answered |-> FALSE,
              req |-> [r1 EXCEPT !.trace = Append(@, "markInFlight")],
              store |-> markInFlight(looked.store, idempotencyKey, t)]

(* An idempotency check that only looks for completed records: a request   *)
(* that finds an in_flight record is marked in flight again and processed. *)
idempotencyCheck_NoConflict(r, s, idempotencyKey, t) ==
    IF ~Truthy(idempotencyKey)
    THEN [answered |-> FALSE, req |-> r, store |-> s]
    ELSE
    LET looked == get(s, idempotencyKey, t)
        cached == looked.ret
        r1 == [r EXCEPT !.cached = cached, !.trace = Append(@, "get")]
    IN  IF cached # null /\ cached.status = "completed"
        THEN [answered |-> TRUE, req |-> respondCached(r1, cached),
              store |-> looked.store]
        ELSE [answered |-> FALSE,
              req |-> [r1 EXCEPT !.trace = Append(@, "markInFlight")],
              store |-> markInFlight(looked.store, idempotencyKey, t)]

(* The idempotency check: whether it answered the request, the request and *)
(* the store after it.                                                     *)
idempotencyCheck(r, s, idempotencyKey, t) ==
    IF ~Truthy(idempotencyKey)
    THEN [answered |-> FALSE, req |-> r, store |-> s]
    ELSE
    LET looked == get(s, idempotencyKey, t)
        cached == looked.ret
        r1 == [r EXCEPT !.cached = cached, !.trace = Append(@, "get")]
    IN  IF cached # null
        THEN IF cached.status = "completed"
             THEN [answered |-> TRUE, req |-> respondCached(r1, cached),
                   store |-> looked.store]
             ELSE [answered |-> TRUE, req |-> respondConflict(r1, idempotencyKey, t),
                   store |-> looked.store]
        ELSE [answered |-> FALSE,
              req |-> [r1 EXCEPT !.trace = Append(@, "markInFlight")],
              store |-> markInFlight(looked.store, idempotencyKey, t)]

(* Backpressure and dispatch: enqueue, 429 when the queue is full, dequeue *)
(* and the call of retryWithBackoff up to the first callDownstream.        *)
admit(r, q, capacity, t) ==
    LET request == [data |-> r.body, idempotencyKey |-> r.idempotencyKey]
        enq == enqueue(q, capacity, request, t)
        r2 == [r EXCEPT !.enqueues = @ + 1, !.trace = Append(@, "enqueue")]
    IN  IF ~enq.ret
        THEN [req |-> respond(r2, 429,
                  [success |-> FALSE,
                   error |-> "Service overloaded - queue full",
                   metadata |-> [processingTimeMs |-> t - r2.startTime,
                                 queueSize |-> queueSize(enq.queue),
                                 queueCapacity |-> getCapacity(enq.queue, capacity)]]),
              queue |-> enq.queue]
        ELSE
        LET deq == dequeue(enq.queue)
            r3 == [r2 EXCEPT !.dequeues = @ + 1, !.trace = Append(@, "dequeue")]
        IN  IF deq.ret = null
            THEN [req |-> respond(r3, 500,
                      [success |-> FALSE,
                       error |-> "Failed to dequeue - this should never happen",
                       metadata |-> [processingTimeMs |-> t - r3.startTime]]),
                  queue |-> deq.queue]
            ELSE [req |-> [r3 EXCEPT !.pc = "awaiting", !.queueItem = deq.ret,
                                     !.attempt = 0, !.calls = 1,
                                     !.trace = Append(@, "callDownstream")],
                  queue |-> deq.queue]

(* A handler that admits and dispatches the request before it looks the   *)
(* key up                                                                  *)
relayBegin_AdmitsFirst(s, q, capacity, idempotencyKey, body, t) ==
    LET r0 == [NewReq EXCEPT !.idempotencyKey = idempotencyKey,
                             !.body = body, !.startTime = t]
        admitted == admit(r0, q, capacity, t)
        checked == idempotencyCheck(admitted.req, s, idempotencyKey, t)
    IN  [req |-> IF checked.answered THEN checked.req
                 ELSE [checked.req EXCEPT !.pc = admitted.req.pc],
         store |-> checked.store, queue |-> admitted.queue]

(* The handler from its first line to the first await *)
relayBegin(s, q, capacity, idempotencyKey, body, t) ==
    LET r0 == [NewReq EXCEPT !.idempotencyKey = idempotencyKey,
                             !.body = body, !.startTime = t]
        checked == idempotencyCheck(r0, s, idempotencyKey, t)
    IN  IF checked.answered
        THEN [req |-> checked.req, store |-> checked.store, queue |-> q]
        ELSE LET admitted == admit(checked.req, q, capacity, t)
             IN  [req |-> admitted.req, store |-> checked.store,
                  queue |-> admitted.queue]

(* A handler that caches the exhausted outcome as well *)
relayFinish_CachesFailure(r, s, retryResult, t) ==
    LET processingTimeMs == t - r.startTime
        response == IF retryResult.success
                    THEN [success |-> TRUE, data |-> retryResult.data,
                          metadata |-> [processingTimeMs |-> processingTimeMs,
                                        attempts |-> retryResult.attempts]]
                    ELSE [success |-> FALSE, error |-> retryResult.error,
                          metadata |-> [processingTimeMs |-> processingTimeMs,
                                        attempts |-> retryResult.attempts]]
        code == IF retryResult.success THEN 200 ELSE 502
    IN  IF Truthy(r.idempotencyKey)
        THEN [req |-> respond([r EXCEPT !.completions = @ + 1,
                                        !.trace = Append(@, "markCompleted")],
                              code, response),
              store |-> markCompleted(s, r.idempotencyKey, code, response, t)]
        ELSE [req |-> respond(r, code, response), store |-> s]

(* The handler after retryWithBackoff has returned *)
relayFinish(r, s, retryResult, t) ==
    LET processingTimeMs == t - r.startTime
    IN  IF retryResult.success
        THEN LET response == [success |-> TRUE, data |-> retryResult.data,
                              metadata |-> [processingTimeMs |-> processingTimeMs,
                                            attempts |-> retryResult.attempts]]
             IN  IF Truthy(r.idempotencyKey)
                 THEN [req |-> respond([r EXCEPT !.completions = @ + 1,
                                                 !.trace = Append(@, "markCompleted")],
                                       200, response),
                       store |-> markCompleted(s, r.idempotencyKey, 200, response, t)]
                 ELSE [req |-> respond(r, 200, response), store |-> s]
        ELSE LET response == [success |-> FALSE, error |-> retryResult.error,
                              metadata |-> [processingTimeMs |-> processingTimeMs,
                                            attempts |-> retryResult.attempts]]
             IN  [req |-> respond(r, 502, response), store |-> s]

----------------------------------------------------------------------------
(* Actions *)

(* No BoundedQueue constructed yet; log is the calls made on it *)
NoQueue ==
    [constructed |-> "no", arg |-> 0, error |-> "", capacity |-> 0,
     queue |-> <<>>, log |-> <<>>]

(* retryWithBackoff not called yet; outcomes is what each attempt did *)
NoRetry ==
    [pc |-> "idle", options |-> defaultOptions, startTime |-> 0, attempt |-> 0,
     lastError |-> "Unknown error", invocations |-> 0, outcomes |-> <<>>,
     delay |-> 0, abandoned |-> {}, stale |-> {}, result |-> null]

Init ==
    /\ now = 0
    /\ store = [k \in {} |-> null]
    /\ queue = <<>>
    /\ req = [h \in Reqs |-> NewReq]
    /\ failures = 0
    /\ lastCall = [op |-> "none"]
    /\ bq = NoQueue
    /\ rt = NoRetry

(* Requests are numbered in the order they arrive *)
Relay(h, idempotencyKey) ==
    /\ req[h].pc = "new"
    /\ \A g \in Reqs : g < h => req[g].pc # "new"
    /\ LET out == relayBegin(store, queue, queueCapacity, idempotencyKey,
                             BodyOf(h), now)
       IN  /\ req' = [req EXCEPT ![h] = out.req]
           /\ store' = out.store
           /\ queue' = out.queue
    /\ UNCHANGED <<now, failures, lastCall, bq, rt>>

DownstreamSettles(h, shouldFail, randomError) ==
    /\ req[h].pc = "awaiting"
    /\ shouldFail => failures < MaxFailures
    /\ LET r == req[h]
           settled == withTimeout(
                          relayOperation(r.queueItem, shouldFail, randomError, now),
                          downstreamLatencyMs, requestTimeoutMs)
           step == retryStep(r.attempt, settled, r.startTime, now)
       IN  IF step.next = "return"
           THEN LET out == relayFinish(
                               IF step.result.success THEN r
                               ELSE [r EXCEPT !.lastError = step.result.error],
                               store, step.result, now)
                IN  /\ req' = [req EXCEPT ![h] = out.req]
                    /\ store' = out.store
           ELSE /\ req' = [req EXCEPT ![h].pc = "sleeping",
                                      ![h].lastError = step.lastError]
                /\ UNCHANGED store
    /\ failures' = IF shouldFail THEN failures + 1 ELSE failures
    /\ UNCHANGED <<now, queue, lastCall, bq, rt>>

SleepDone(h) ==
    /\ req[h].pc = "sleeping"
    /\ req' = [req EXCEPT ![h].pc = "awaiting",
                          ![h].attempt = @ + 1,
                          ![h].calls = @ + 1,
                          ![h].trace = Append(@, "callDownstream")]
    /\ UNCHANGED <<now, store, queue, failures, lastCall, bq, rt>>

Cleanup ==
    /\ store' = cleanup(store, now)
    /\ UNCHANGED <<now, queue, req, failures, lastCall, bq, rt>>

Ticks(t) == (t \div idempotencyTtlMs) + (t % idempotencyTtlMs)

Tick(d) ==
    /\ Ticks(now) < MaxTicks
    /\ now' = now + d
    /\ UNCHANGED <<store, queue, req, failures, lastCall, bq, rt>>

Next ==
    \/ \E h \in Reqs, k \in IdempotencyKeys : Relay(h, k)
    \/ \E h \in Reqs, shouldFail \in BOOLEAN, e \in RandomErrors :
           DownstreamSettles(h, shouldFail, e)
    \/ \E h \in Reqs : SleepDone(h)
    \/ Cleanup
    \/ \E d \in TickSteps : Tick(d)

Spec == Init /\ [][Next]_vars

----------------------------------------------------------------------------
(* The IdempotencyStore on its own: any sequence of calls of its public    *)
(* methods, the clock advancing in between. lastCall is the last call made *)
(* and what it returned.                                                   *)

Get(k) ==
    /\ LET g == get(store, k, now)
       IN  /\ store' = g.store
           /\ lastCall' = [op |-> "get", key |-> k, ret |-> g.ret, at |-> now,
                          sizeBefore |-> size(store)]
    /\ UNCHANGED <<now, queue, req, failures, bq, rt>>

(* afterExpiredGet: the call before was a get of k that found the record   *)
(* expired; replaced: what the record of k was when the call was made      *)
MarkInFlight(k) ==
    /\ store' = markInFlight(store, k, now)
    /\ lastCall' = [op |-> "markInFlight", key |-> k, at |-> now,
                    afterExpiredGet |-> /\ lastCall.op = "get"
                                        /\ lastCall.key = k
                                        /\ lastCall.ret = null
                                        /\ size(store) < lastCall.sizeBefore,
                    replaced |-> IF k \notin DOMAIN store THEN "none"
                                 ELSE IF isExpired(store[k], now) THEN "expired"
                                      ELSE store[k].status]
    /\ UNCHANGED <<now, queue, req, failures, bq, rt>>

MarkCompleted(k, statusCode, data) ==
    /\ store' = markCompleted(store, k, statusCode, data, now)
    /\ lastCall' = [op |-> "markCompleted", key |-> k, at |-> now,
                    replaced |-> IF k \notin DOMAIN store THEN "none"
                                 ELSE IF isExpired(store[k], now) THEN "expired"
                                      ELSE store[k].status]
    /\ UNCHANGED <<now, queue, req, failures, bq, rt>>

CleanupCall ==
    /\ store' = cleanup(store, now)
    /\ lastCall' = [op |-> "cleanup", at |-> now, sizeBefore |-> size(store)]
    /\ UNCHANGED <<now, queue, req, failures, bq, rt>>

(* clear(), which server.ts never calls *)
Clear ==
    /\ store' = clear(store)
    /\ lastCall' = [op |-> "clear", at |-> now, sizeBefore |-> size(store)]
    /\ UNCHANGED <<now, queue, req, failures, bq, rt>>

StoreNext ==
    \/ \E k \in StoreKeys : Get(k)
    \/ \E k \in StoreKeys : MarkInFlight(k)
    \/ \E k \in StoreKeys, c \in StatusCodes, d \in Results : MarkCompleted(k, c, d)
    \/ CleanupCall
    \/ \E d \in TickSteps : Tick(d)

StoreSpec == Init /\ [][StoreNext]_vars

(* The store with clear() as well, the method kept for tests that          *)
(* server.ts never calls                                                   *)
StoreApiNext ==
    \/ StoreNext
    \/ Clear

StoreApiSpec == Init /\ [][StoreApiNext]_vars

----------------------------------------------------------------------------
(* The IdempotencyStore with a clock that advances and the setInterval of  *)
(* the constructor firing (destroy is not called). Nobody owes the store a *)
(* lookup. The clock of the model stops after MaxTicks steps.              *)

(* Completed records all carry the same response here *)
StoreFairNext ==
    \/ \E k \in StoreKeys : Get(k)
    \/ \E k \in StoreKeys : MarkInFlight(k)
    \/ \E k \in StoreKeys : MarkCompleted(k, 200, "r1")
    \/ CleanupCall
    \/ \E d \in TickSteps : Tick(d)

StoreFairSpec ==
    /\ Init
    /\ [][StoreFairNext]_vars
    /\ WF_vars(CleanupCall)
    /\ \A d \in TickSteps : WF_vars(Tick(d))

----------------------------------------------------------------------------
(* Requests with and without an idempotency-key header side by side. The   *)
(* clock moves a whole TTL at a time here, which is what lets a record     *)
(* expire.                                                                 *)

(* A request without the header; one such request per run *)
RelayKeyless(h) ==
    /\ \A g \in Reqs : req[g].pc # "new" => req[g].idempotencyKey # undefined
    /\ Relay(h, undefined)

KeylessNext ==
    \/ \E h \in 1..MaxMixed, k \in IdempotencyKeys : Relay(h, k)
    \/ \E h \in 1..MaxMixed : RelayKeyless(h)
    \/ \E h \in Reqs, shouldFail \in BOOLEAN, e \in RandomErrors :
           DownstreamSettles(h, shouldFail, e)
    \/ \E h \in Reqs : SleepDone(h)
    \/ Cleanup
    \/ Tick(idempotencyTtlMs)

KeylessSpec == Init /\ [][KeylessNext]_vars

----------------------------------------------------------------------------
(* The handler against a downstream that may take arbitrarily long or      *)
(* never answer: the attempt is then ended by withTimeout's timer. Timers  *)
(* fire, the downstream owes nothing. The clock moves a whole TTL at a     *)
(* time.                                                                   *)

AttemptTimesOut(h) ==
    /\ req[h].pc = "awaiting"
    /\ LET r == req[h]
           settled == withTimeout(Pending, requestTimeoutMs + 1, requestTimeoutMs)
       IN  /\ settled # Pending
           /\ LET step == retryStep(r.attempt, settled, r.startTime, now)
              IN  IF step.next = "return"
                  THEN LET out == relayFinish(
                                      [r EXCEPT !.lastError = step.result.error],
                                      store, step.result, now)
                       IN  /\ req' = [req EXCEPT ![h] = out.req]
                           /\ store' = out.store
                  ELSE /\ req' = [req EXCEPT ![h].pc = "sleeping",
                                             ![h].lastError = step.lastError]
                       /\ UNCHANGED store
    /\ UNCHANGED <<now, queue, failures, lastCall, bq, rt>>

AnyDownstreamNext ==
    \/ \E h \in 1..MaxMixed, k \in IdempotencyKeys : Relay(h, k)
    \/ \E h \in Reqs, shouldFail \in BOOLEAN, e \in RandomErrors :
           DownstreamSettles(h, shouldFail, e)
    \/ \E h \in Reqs : AttemptTimesOut(h)
    \/ \E h \in Reqs : SleepDone(h)
    \/ Cleanup
    \/ Tick(idempotencyTtlMs)

FairSpec ==
    /\ Init
    /\ [][AnyDownstreamNext]_vars
    /\ \A h \in Reqs : WF_vars(AttemptTimesOut(h)) /\ WF_vars(SleepDone(h))

----------------------------------------------------------------------------
(* A BoundedQueue on its own: constructed once, then any sequence of        *)
(* enqueue and dequeue calls.                                              *)

Construct(capacity) ==
    /\ bq.constructed = "no"
    /\ LET made == BoundedQueue(capacity)
       IN  bq' = IF made.threw
                 THEN [bq EXCEPT !.constructed = "threw", !.arg = capacity,
                                 !.error = made.error]
                 ELSE [bq EXCEPT !.constructed = "yes", !.arg = capacity,
                                 !.capacity = made.capacity,
                                 !.queue = made.queue]
    /\ UNCHANGED <<now, store, queue, req, failures, lastCall, rt>>

Enqueue(data) ==
    /\ bq.constructed = "yes"
    /\ Len(bq.log) < MaxCalls
    /\ LET e == enqueue(bq.queue, bq.capacity, data, now)
       IN  bq' = [bq EXCEPT !.queue = e.queue,
                            !.log = Append(@, [op |-> "enqueue",
                                               item |-> [data |-> data,
                                                         enqueuedAt |-> now],
                                               ret |-> e.ret])]
    /\ UNCHANGED <<now, store, queue, req, failures, lastCall, rt>>

Dequeue ==
    /\ bq.constructed = "yes"
    /\ Len(bq.log) < MaxCalls
    /\ LET d == dequeue(bq.queue)
       IN  bq' = [bq EXCEPT !.queue = d.queue,
                            !.log = Append(@, [op |-> "dequeue", ret |-> d.ret])]
    /\ UNCHANGED <<now, store, queue, req, failures, lastCall, rt>>

QueueNext ==
    \/ \E c \in CapacityArgs : Construct(c)
    \/ \E data \in QueueItems : Enqueue(data)
    \/ Dequeue
    \/ \E d \in TickSteps : Tick(d)

QueueSpec == Init /\ [][QueueNext]_vars

----------------------------------------------------------------------------
(* retryWithBackoff on its own, against an operation that on each attempt  *)
(* resolves, rejects or never settles.                                     *)

(* What the operation may do on its k-th invocation *)
OperationOutcomes(k) ==
    {[threw |-> FALSE, value |-> [resultOf |-> k]]}
        \cup {[threw |-> TRUE, error |-> e] : e \in OperationErrors}
        \cup {Pending}

(* The call, up to the first await *)
RetryWithBackoff(n) ==
    /\ rt.pc = "idle"
    /\ LET options == [defaultOptions EXCEPT !.maxRetries = n]
           head == retryLoopHead(options, 0, "Unknown error", now, now)
       IN  rt' = IF head.next = "invoke"
                 THEN [rt EXCEPT !.pc = "awaiting", !.options = options,
                                 !.startTime = now, !.invocations = 1]
                 ELSE [rt EXCEPT !.pc = "returned", !.options = options,
                                 !.startTime = now, !.result = head.result]
    /\ UNCHANGED <<now, store, queue, req, failures, lastCall, bq>>

(* The race of the attempt against its timeout is decided. A timed-out     *)
(* operation that settles later stays outstanding (abandoned); the timer   *)
(* of an attempt that settled first stays armed (stale). random is the Math.random() draw of  *)
(* the delay, used only when the loop goes to sleep.                       *)
AttemptEnds(outcome, latencyMs, random) ==
    /\ rt.pc = "awaiting"
    /\ outcome = Pending => latencyMs > rt.options.timeoutMs
    /\ LET settled == withTimeout(outcome, latencyMs, rt.options.timeoutMs)
           timedOut == latencyMs > rt.options.timeoutMs
       IN  /\ settled # Pending
           /\ LET step == retryLoopStep(rt.options, rt.attempt, settled,
                                        rt.startTime, now)
                  did == [kind |-> IF timedOut THEN "timedOut"
                                   ELSE IF outcome.threw THEN "rejected"
                                        ELSE "resolved",
                          outcome |-> outcome]
                  raced == [rt EXCEPT !.outcomes = Append(@, did),
                                      !.abandoned = IF timedOut /\ outcome # Pending
                                                    THEN @ \cup {rt.invocations}
                                                    ELSE @,
                                      !.stale = IF timedOut THEN @
                                                ELSE @ \cup {rt.invocations}]
              IN  IF step.next = "return"
                  THEN /\ random = 0
                       /\ rt' = [raced EXCEPT !.pc = "returned",
                                              !.lastError =
                                                  IF step.result.success THEN @
                                                  ELSE step.result.error,
                                              !.result = step.result]
                  ELSE rt' = [raced EXCEPT !.pc = "sleeping",
                                          !.lastError = step.lastError,
                                          !.delay = calculateDelayWithJitter(
                                                        rt.attempt,
                                                        rt.options.initialDelayMs,
                                                        rt.options.maxDelayMs,
                                                        random)]
    /\ UNCHANGED <<now, store, queue, req, failures, lastCall, bq>>

(* The backoff timer fires and the loop comes round *)
BackoffDone ==
    /\ rt.pc = "sleeping"
    /\ LET head == retryLoopHead(rt.options, rt.attempt + 1, rt.lastError,
                                 rt.startTime, now)
       IN  rt' = IF head.next = "invoke"
                 THEN [rt EXCEPT !.pc = "awaiting", !.attempt = @ + 1,
                                 !.invocations = @ + 1, !.delay = 0]
                 ELSE [rt EXCEPT !.pc = "returned", !.attempt = @ + 1,
                                 !.delay = 0, !.result = head.result]
    /\ UNCHANGED <<now, store, queue, req, failures, lastCall, bq>>

RetryNext ==
    \/ \E n \in RetryCounts : RetryWithBackoff(n)
    \/ \E o \in OperationOutcomes(rt.invocations), l \in OperationLatencies,
          random \in Randoms : AttemptEnds(o, l, random)
    \/ BackoffDone
    \/ \E d \in TickSteps : Tick(d)

RetrySpec == Init /\ [][RetryNext]_vars

----------------------------------------------------------------------------
(* The orchestrator over a queue of any capacity: server.ts constructs its *)
(* BoundedQueue once, with the capacity of config, which is drawn here.    *)
(* The requests carry no key, so that the dedup step answers none of them  *)
(* and all of them reach the queue and are processed at once. The clock    *)
(* stands still.                                                           *)

RelayOn(h) ==
    /\ bq.constructed = "yes"
    /\ req[h].pc = "new"
    /\ \A g \in Reqs : g < h => req[g].pc # "new"
    /\ LET out == relayBegin(store, queue, bq.capacity, undefined,
                             BodyOf(h), now)
       IN  /\ req' = [req EXCEPT ![h] = out.req]
           /\ store' = out.store
           /\ queue' = out.queue
    /\ UNCHANGED <<now, failures, lastCall, bq, rt>>

OrchestratorNext ==
    \/ \E c \in CapacityArgs : Construct(c)
    \/ \E h \in Reqs : RelayOn(h)
    \/ \E h \in Reqs, shouldFail \in BOOLEAN, e \in RandomErrors :
           DownstreamSettles(h, shouldFail, e)
    \/ \E h \in Reqs : SleepDone(h)

OrchestratorSpec == Init /\ [][OrchestratorNext]_vars

----------------------------------------------------------------------------
(* retryWithBackoff with the events its races leave behind: operations     *)
(* that were abandoned at their timeout and settle later, and timeout      *)
(* timers that fire after their attempt has settled. Neither is cancelled  *)
(* by the code. The clock stands still.                                    *)

(* The operation invoked as the k-th settles after its attempt timed out *)
AbandonedSettles(k) ==
    /\ k \in rt.abandoned
    /\ rt' = [lateSettle(rt, rt.outcomes[k].outcome, now)
                  EXCEPT !.abandoned = @ \ {k}]
    /\ UNCHANGED <<now, store, queue, req, failures, lastCall, bq>>

(* The timeout timer of the k-th attempt fires after the operation settled *)
StaleTimerFires(k) ==
    /\ k \in rt.stale
    /\ rt' = [lateSettle(rt, [threw |-> TRUE, error |-> TimeoutMessage], now)
                  EXCEPT !.stale = @ \ {k}]
    /\ UNCHANGED <<now, store, queue, req, failures, lastCall, bq>>

LateNext ==
    \/ \E n \in RetryCounts : RetryWithBackoff(n)
    \/ \E o \in OperationOutcomes(rt.invocations), l \in OperationLatencies,
          random \in Randoms : AttemptEnds(o, l, random)
    \/ BackoffDone
    \/ \E k \in 1..(MaxRetriesArg + 1) : AbandonedSettles(k)
    \/ \E k \in 1..(MaxRetriesArg + 1) : StaleTimerFires(k)

LateSpec == Init /\ [][LateNext]_vars

----------------------------------------------------------------------------
(* retryWithBackoff with timers that fire: the setTimeout of withTimeout   *)
(* ends an attempt whose operation has not settled, the setTimeout of      *)
(* sleep ends the backoff. The operation itself owes nothing: it may       *)
(* settle in time, late or never.                                          *)

(* withTimeout's timer fires on an operation that never settles *)
TimeoutFires ==
    \E random \in Randoms : AttemptEnds(Pending, requestTimeoutMs + 1, random)

(* The clock moves a millisecond at a time *)
RetryFairNext ==
    \/ \E n \in RetryCounts : RetryWithBackoff(n)
    \/ \E o \in OperationOutcomes(rt.invocations), l \in OperationLatencies,
          random \in Randoms : AttemptEnds(o, l, random)
    \/ BackoffDone
    \/ Tick(1)

RetryFairSpec ==
    /\ Init
    /\ [][RetryFairNext]_vars
    /\ WF_vars(TimeoutFires)
    /\ WF_vars(BackoffDone)

----------------------------------------------------------------------------
(* calculateDelayWithJitter on its own: lastCall is the call made and the  *)
(* delay it returned.                                                      *)

CalculateDelay(attempt, initialDelayMs, maxDelayMs, random) ==
    /\ lastCall' = [op |-> "calculateDelayWithJitter", attempt |-> attempt,
                    initialDelayMs |-> initialDelayMs,
                    maxDelayMs |-> maxDelayMs, random |-> random,
                    ret |-> calculateDelayWithJitter(attempt, initialDelayMs,
                                                     maxDelayMs, random)]
    /\ UNCHANGED <<now, store, queue, req, failures, bq, rt>>

DelayNext ==
    \E i \in AttemptIndexes, initial \in InitialDelays, max \in MaxDelays,
       random \in Randoms : CalculateDelay(i, initial, max, random)

DelaySpec == Init /\ [][DelayNext]_vars

----------------------------------------------------------------------------
(* Properties of the orchestrator (Spec) *)

(* Past the dedup check and not yet answered *)
InProcessing(h) == req[h].pc \in {"awaiting", "sleeping"}

(* The step is the arrival of request h *)
Arrives(h) == req[h].pc = "new" /\ req'[h].pc # "new"

(* C1: at no time are two requests carrying the same key both past the    *)
(* dedup check and not yet answered.                                       *)
C1_OneInProcessingPerKey ==
    \A h1, h2 \in Reqs :
        (/\ h1 # h2
         /\ InProcessing(h1) /\ InProcessing(h2)
         /\ Truthy(req[h1].idempotencyKey))
        => req[h1].idempotencyKey # req[h2].idempotencyKey

(* C2: when request h1 arrived while no unexpired record for its key       *)
(* existed, a request h2 with the same key that arrives before h1 is       *)
(* answered and before the TTL has elapsed is answered 409 without         *)
(* reaching callDownstream, and h1 is the one that reached it.             *)
C2_SecondGetsConflict ==
    [][\A h1, h2 \in Reqs :
        (/\ h1 # h2
         /\ Arrives(h2)
         /\ Truthy(req'[h2].idempotencyKey)
         /\ req[h1].idempotencyKey = req'[h2].idempotencyKey
         /\ InProcessing(h1)
         /\ req[h1].cached = null
         /\ now <= req[h1].startTime + idempotencyTtlMs)
        => /\ req'[h2].status = 409
           /\ req'[h2].calls = 0
           /\ req[h1].calls >= 1]_vars

(* C3: a request that finds an unexpired completed record is answered with *)
(* exactly the cached status code and body, which are those of an earlier  *)
(* successful relay; it calls neither callDownstream nor the queue, does   *)
(* not retry, and leaves the store as it was.                              *)
C3_CachedReplay ==
    [][\A h \in Reqs :
        LET k == req'[h].idempotencyKey
        IN  (/\ Arrives(h)
             /\ Truthy(k)
             /\ k \in DOMAIN store
             /\ ~isExpired(store[k], now)
             /\ store[k].status = "completed")
            => /\ req'[h].pc = "done"
               /\ req'[h].status = store[k].httpStatusCode
               /\ req'[h].response = store[k].data
               /\ \E g \in Reqs \ {h} : /\ req[g].idempotencyKey = k
                                        /\ req[g].calls >= 1
                                        /\ req[g].status = req'[h].status
                                        /\ req[g].response = req'[h].response
               /\ req'[h].calls = 0
               /\ req'[h].enqueues = 0 /\ req'[h].dequeues = 0
               /\ req'[h].completions = 0
               /\ store' = store
               /\ queue' = queue]_vars

(* A second relay with the key of a successful first one has been answered *)
(* from the cache.                                                         *)
C3_Witness ==
    \E g, h \in Reqs :
        /\ g # h
        /\ req[g].status = 200 /\ req[g].calls >= 1
        /\ req[h].pc = "done" /\ req[h].calls = 0
        /\ req[h].cached # null
        /\ req[h].cached.status = "completed"
        /\ req[h].response = req[g].response
        /\ req[h].body # req[g].body

(* C4: a request that finds an unexpired in_flight record is answered 409, *)
(* which is neither success nor the cached replay; it calls neither        *)
(* callDownstream nor the queue and leaves the record as it was.           *)
C4_InFlightConflict ==
    [][\A h \in Reqs :
        LET k == req'[h].idempotencyKey
        IN  (/\ Arrives(h)
             /\ Truthy(k)
             /\ k \in DOMAIN store
             /\ ~isExpired(store[k], now)
             /\ store[k].status = "in_flight")
            => /\ req'[h].pc = "done"
               /\ req'[h].status = 409
               /\ req'[h].response.success = FALSE
               /\ req'[h].calls = 0
               /\ req'[h].enqueues = 0 /\ req'[h].dequeues = 0
               /\ req'[h].completions = 0
               /\ store' = store
               /\ queue' = queue]_vars

(* A request has been answered 409 while the record is still in_flight *)
C4_Witness ==
    \E h \in Reqs :
        /\ req[h].status = 409
        /\ req[h].cached # null
        /\ req[h].cached.status = "in_flight"
        /\ req[h].idempotencyKey \in DOMAIN store
        /\ store[req[h].idempotencyKey] = req[h].cached

(* C5: markCompleted is called only by a request whose retry outcome was   *)
(* success, and every completed record holds the status code 200 and the   *)
(* response of such a request.                                             *)
C5_OnlySuccessCached ==
    /\ \A h \in Reqs :
          req[h].completions > 0
          => /\ req[h].status = 200
             /\ req[h].response.success
             /\ req[h].calls >= 1
    /\ \A h \in Reqs :
          req[h].status \in {409, 429, 500, 502} => req[h].completions = 0
    /\ \A k \in DOMAIN store :
          store[k].status = "completed"
          => /\ store[k].httpStatusCode = 200
             /\ \E h \in Reqs : /\ req[h].idempotencyKey = k
                                /\ req[h].status = 200
                                /\ req[h].completions = 1
                                /\ req[h].response = store[k].data

(* One relay ended in exhaustion and the store holds a completed record *)
C5_Witness ==
    /\ \E h \in Reqs : req[h].status = 502 /\ req[h].calls = maxRetries + 1
    /\ \E k \in DOMAIN store : store[k].status = "completed"

(* C6: after a relay with key k has ended 502, a later request with key k  *)
(* sent within the TTL window is treated as new work and reaches           *)
(* callDownstream.                                                         *)
C6_RetryAfterExhaustion ==
    [][\A h1, h2 \in Reqs :
        (/\ h1 # h2
         /\ Arrives(h2)
         /\ Truthy(req'[h2].idempotencyKey)
         /\ req[h1].idempotencyKey = req'[h2].idempotencyKey
         /\ req[h1].status = 502
         /\ now <= req[h1].startTime + idempotencyTtlMs)
        => /\ req'[h2].calls >= 1
           /\ req'[h2].status # 409]_vars

(* C7: a completed record is never overwritten, and it is replaced by an   *)
(* in_flight record or removed only once it has expired.                   *)
C7_CompletedOnce ==
    [][\A k \in DOMAIN store :
        store[k].status = "completed"
        => \/ k \in DOMAIN store' /\ store'[k] = store[k]
           \/ /\ isExpired(store[k], now)
              /\ k \in DOMAIN store' => store'[k].status = "in_flight"]_vars

----------------------------------------------------------------------------
(* Properties of the IdempotencyStore (StoreSpec) *)

(* The step is a call of get, of a mark on key k *)
GetStep == lastCall'.op = "get" /\ now' = now

MarkStep(k) ==
    /\ lastCall'.op \in {"markInFlight", "markCompleted"}
    /\ lastCall'.key = k
    /\ now' = now

(* C8: cachedTime is set to the current time when a record is created and *)
(* is kept by markCompleted on an existing record, so that a completed     *)
(* record expires at its first-seen time + TTL.                            *)
C8_FirstSeenKept ==
    [][\A k \in DOMAIN store' :
        /\ k \notin DOMAIN store => store'[k].cachedTime = now
        /\ (k \in DOMAIN store /\ store'[k].status = "completed")
           => /\ store'[k].cachedTime = store[k].cachedTime
              /\ (get(store', k, now).ret = null
                  <=> now > store[k].cachedTime + idempotencyTtlMs)]_vars

(* markCompleted has just completed a record that was first seen earlier *)
C8_Witness ==
    /\ lastCall.op = "markCompleted"
    /\ lastCall.at = now
    /\ lastCall.key \in DOMAIN store
    /\ store[lastCall.key].status = "completed"
    /\ store[lastCall.key].cachedTime < now

(* C9: get returns the stored record exactly when one exists and           *)
(* now <= cachedTime + ttlMs; for an expired record it returns null and    *)
(* removes that record and no other.                                       *)
C9_GetExpiry ==
    [][GetStep =>
        LET k == lastCall'.key
            ret == lastCall'.ret
        IN  /\ ret # null <=> (k \in DOMAIN store
                               /\ now <= store[k].cachedTime + idempotencyTtlMs)
            /\ ret # null => ret = store[k] /\ store' = store
            /\ k \notin DOMAIN store => store' = store
            /\ (k \in DOMAIN store /\ now > store[k].cachedTime + idempotencyTtlMs)
               => /\ ret = null
                  /\ k \notin DOMAIN store'
                  /\ size(store') = size(store) - 1
                  /\ DOMAIN store' = DOMAIN store \ {k}
                  /\ \A j \in DOMAIN store' : store'[j] = store[j]]_vars

(* get has just removed an expired record and left another record behind *)
C9_Witness ==
    /\ lastCall.op = "get"
    /\ lastCall.at = now
    /\ lastCall.ret = null
    /\ size(store) = lastCall.sizeBefore - 1
    /\ size(store) >= 1

(* C10: an unexpired completed record stays as markCompleted left it until *)
(* the next mark on its key, and every get of it returns it with the same  *)
(* status, httpStatusCode, data and cachedTime.                            *)
C10_GetStable ==
    [][\A k \in DOMAIN store :
        (/\ store[k].status = "completed"
         /\ now <= store[k].cachedTime + idempotencyTtlMs
         /\ ~MarkStep(k))
        => /\ k \in DOMAIN store'
           /\ store'[k] = store[k]
           /\ (GetStep /\ lastCall'.key = k)
              => /\ lastCall'.ret.status = store[k].status
                 /\ lastCall'.ret.httpStatusCode = store[k].httpStatusCode
                 /\ lastCall'.ret.data = store[k].data
                 /\ lastCall'.ret.cachedTime = store[k].cachedTime]_vars

(* get has just returned a completed record some time after it was first   *)
(* seen, and the record is still what get returned                         *)
C10_Witness ==
    /\ lastCall.op = "get"
    /\ lastCall.at = now
    /\ lastCall.ret # null
    /\ lastCall.ret.status = "completed"
    /\ lastCall.ret.cachedTime < now
    /\ store[lastCall.key] = lastCall.ret

----------------------------------------------------------------------------
(* Properties of requests without a key (KeylessSpec) *)

(* C11: a request without an idempotency key never reads or writes the     *)
(* store: every step of its handling leaves the store as it was, it holds  *)
(* no record looked up from the store, it is never answered 409 and what   *)
(* it is answered comes from a downstream call of its own, never from the  *)
(* cache.                                                                  *)
C11_KeylessLeavesStore ==
    [][\A h \in Reqs :
        (req'[h] # req[h] /\ req'[h].idempotencyKey = undefined)
        => /\ store' = store
           /\ req'[h].cached = null
           /\ req'[h].completions = 0
           /\ req'[h].status # 409
           /\ req'[h].pc = "done" => req'[h].calls >= 1]_vars

(* A keyless request has been answered 200 while the store holds the       *)
(* completed record of a keyed one                                         *)
C11_Witness ==
    \E h \in Reqs :
        /\ req[h].pc = "done"
        /\ req[h].idempotencyKey = undefined
        /\ req[h].status = 200
        /\ "k1" \in DOMAIN store
        /\ store["k1"].status = "completed"

----------------------------------------------------------------------------
(* Properties of the handler against any downstream (FairSpec) *)

Outcomes == {200, 409, 429, 502, 500}

(* C12: every request that arrives is eventually answered, whatever the    *)
(* downstream does and even if a downstream call never completes; the      *)
(* answer is one of the five outcomes, and once given it is never followed *)
(* by another.                                                             *)
C12_AlwaysAnswered ==
    /\ \A h \in Reqs : (req[h].pc # "new") ~> (req[h].pc = "done")
    /\ [](\A h \in Reqs : IF req[h].pc = "done"
                          THEN req[h].status \in Outcomes
                          ELSE req[h].status = 0)
    /\ [][\A h \in Reqs : req[h].pc = "done" => req'[h] = req[h]]_vars

(* A request has been answered 502 after its last attempt timed out *)
C12_Witness ==
    \E h \in Reqs :
        /\ req[h].pc = "done"
        /\ req[h].status = 502
        /\ req[h].response.error = "Operation timed out after timeoutMs ms"
        /\ req[h].calls = maxRetries + 1

----------------------------------------------------------------------------
(* Properties of the BoundedQueue (QueueSpec) *)

(* C13: a queue built with a capacity c > 0 never holds more than c items. *)
C13_SizeBounded ==
    (bq.constructed = "yes" /\ bq.arg > 0)
    => queueSize(bq.queue) <= bq.capacity

(* The queue of the largest capacity is full and has just turned an item   *)
(* away                                                                    *)
C13_Witness ==
    /\ bq.constructed = "yes"
    /\ bq.capacity = MaxCapacity
    /\ queueSize(bq.queue) = bq.capacity
    /\ bq.log # <<>>
    /\ bq.log[Len(bq.log)].op = "enqueue"
    /\ ~bq.log[Len(bq.log)].ret

(* The step is a call of enqueue *)
EnqueueStep ==
    /\ bq.constructed = "yes"
    /\ Len(bq'.log) = Len(bq.log) + 1
    /\ bq'.log[Len(bq'.log)].op = "enqueue"

(* C14: enqueue on a queue holding capacity items returns false and leaves *)
(* the queue exactly as it was; enqueue on a queue holding fewer returns   *)
(* true and appends the item at the tail.                                  *)
C14_EnqueueFrame ==
    [][EnqueueStep =>
        LET e == bq'.log[Len(bq'.log)]
        IN  /\ queueSize(bq.queue) = bq.capacity
               => (~e.ret /\ bq'.queue = bq.queue)
            /\ queueSize(bq.queue) < bq.capacity
               => (e.ret /\ bq'.queue = Append(bq.queue, e.item))]_vars

(* An item was turned away by a full queue that had been dequeued from     *)
(* before                                                                  *)
C14_Witness ==
    /\ bq.constructed = "yes"
    /\ Len(bq.log) >= 3
    /\ bq.log[Len(bq.log)].op = "enqueue"
    /\ ~bq.log[Len(bq.log)].ret
    /\ \E i \in 1..Len(bq.log) :
           bq.log[i].op = "dequeue" /\ bq.log[i].ret # null

(* No dequeue has been called *)
OnlyEnqueues == \A i \in 1..Len(bq.log) : bq.log[i].op = "enqueue"

(* C15: from the empty queue and with no dequeue, the first c enqueues     *)
(* return true and the (c+1)-th returns false; from then on size() is c,   *)
(* isFull() is true and getUtilization() is 100.                           *)
C15_FillsToCapacity ==
    (bq.constructed = "yes" /\ bq.arg > 0 /\ OnlyEnqueues)
    => /\ \A i \in 1..Len(bq.log) :
              i <= bq.capacity + 1 => (bq.log[i].ret <=> i <= bq.capacity)
       /\ Len(bq.log) >= bq.capacity + 1
          => /\ queueSize(bq.queue) = bq.capacity
             /\ isFull(bq.queue, bq.capacity)
             /\ getUtilization(bq.queue, bq.capacity).num
                    = 100 * getUtilization(bq.queue, bq.capacity).den

(* A queue of capacity two or more right after its (c+1)-th enqueue *)
C15_Witness ==
    /\ bq.constructed = "yes"
    /\ bq.capacity >= 2
    /\ OnlyEnqueues
    /\ Len(bq.log) = bq.capacity + 1

IsAccepted(e) == e.op = "enqueue" /\ e.ret

IsReturned(e) == e.op = "dequeue" /\ e.ret # null

(* The items whose enqueue returned true, in call order *)
AcceptedItems ==
    LET es == SelectSeq(bq.log, IsAccepted)
    IN  [i \in 1..Len(es) |-> es[i].item]

(* The items dequeue returned, in call order *)
ReturnedItems ==
    LET ds == SelectSeq(bq.log, IsReturned)
    IN  [i \in 1..Len(ds) |-> ds[i].ret]

(* C16: at every moment the items dequeue has returned, followed by the    *)
(* items still queued, are the items whose enqueue returned true, in the   *)
(* order of their enqueues: FIFO, nothing rejected appears, nothing        *)
(* accepted is returned twice or lost.                                     *)
C16_Fifo ==
    (bq.constructed = "yes" /\ bq.arg > 0)
    => AcceptedItems = ReturnedItems \o bq.queue

(* Two different items came out, one item was turned away, one is queued   *)
C16_Witness ==
    /\ bq.constructed = "yes"
    /\ Len(ReturnedItems) >= 2
    /\ ReturnedItems[1].data # ReturnedItems[2].data
    /\ \E i \in 1..Len(bq.log) : bq.log[i].op = "enqueue" /\ ~bq.log[i].ret

(* C17: constructing with a capacity <= 0 throws and leaves no queue;      *)
(* constructing with a capacity > 0 yields an empty queue of that capacity. *)
C17_ConstructorGuard ==
    bq.constructed # "no"
    => IF bq.arg <= 0
       THEN /\ bq.constructed = "threw"
            /\ bq.error = "Queue capacity must be positive"
            /\ bq.queue = <<>> /\ bq.log = <<>>
       ELSE /\ bq.constructed = "yes"
            /\ getCapacity(bq.queue, bq.capacity) = bq.arg
            /\ bq.log = <<>> => isEmpty(bq.queue)

(* The constructor has thrown on a capacity of zero *)
C17_Witness ==
    /\ bq.constructed = "threw"
    /\ bq.arg = 0

----------------------------------------------------------------------------
(* Properties of retryWithBackoff (RetrySpec) *)

(* Every attempt so far was rejected by the operation *)
AllRejected ==
    \A i \in 1..Len(rt.outcomes) : rt.outcomes[i].kind = "rejected"

(* C18: with maxRetries = N >= 0 and an operation that fails on every      *)
(* attempt, the operation is invoked exactly N+1 times and the call        *)
(* returns success = false with attempts = N+1.                            *)
C18_ExhaustsAllAttempts ==
    (rt.pc = "returned" /\ rt.options.maxRetries >= 0 /\ AllRejected)
    => /\ rt.invocations = rt.options.maxRetries + 1
       /\ Len(rt.outcomes) = rt.options.maxRetries + 1
       /\ ~rt.result.success
       /\ rt.result.attempts = rt.options.maxRetries + 1

(* A call with maxRetries = 2 has returned after three rejected attempts *)
C18_Witness ==
    /\ rt.pc = "returned"
    /\ rt.options.maxRetries = 2
    /\ AllRejected
    /\ rt.invocations = 3

(* Attempt k resolved within the deadline after k-1 failed attempts *)
SucceededOn(k) ==
    /\ Len(rt.outcomes) = k
    /\ rt.outcomes[k].kind = "resolved"
    /\ \A i \in 1..(k - 1) : rt.outcomes[i].kind # "resolved"

(* C19: when the operation fails on attempts 1..k-1 and succeeds within    *)
(* the deadline on attempt k <= N+1, the call returns success = true with  *)
(* attempts = k and the result of attempt k as data, and the operation has *)
(* been invoked k times and is never invoked again.                        *)
C19_SucceedsOnAttemptK ==
    \A k \in 1..(rt.options.maxRetries + 1) :
        SucceededOn(k)
        => /\ rt.pc = "returned"
           /\ rt.result.success
           /\ rt.result.attempts = k
           /\ rt.result.data = rt.outcomes[k].outcome.value
           /\ rt.result.data = [resultOf |-> k]
           /\ rt.invocations = k

(* The third attempt resolved after a rejected and a timed-out one, with   *)
(* an attempt to spare                                                     *)
C19_Witness ==
    /\ rt.pc = "returned"
    /\ rt.options.maxRetries = 3
    /\ SucceededOn(3)
    /\ rt.outcomes[1].kind = "rejected"
    /\ rt.outcomes[2].kind = "timedOut"

(* C20: for every maxRetries >= 0 and whatever the operation does, it is   *)
(* invoked at most maxRetries+1 times, and the attempts field of the       *)
(* returned outcome is the number of times it was invoked.                 *)
C20_InvocationsBounded ==
    rt.options.maxRetries >= 0
    => /\ rt.invocations <= rt.options.maxRetries + 1
       /\ rt.pc = "returned" => rt.result.attempts = rt.invocations

(* A call with maxRetries = 1 has returned failure after a rejected and a  *)
(* timed-out attempt                                                       *)
C20_Witness ==
    /\ rt.pc = "returned"
    /\ rt.options.maxRetries = 1
    /\ ~rt.result.success
    /\ rt.invocations = 2
    /\ \E i \in 1..Len(rt.outcomes) : rt.outcomes[i].kind = "timedOut"
    /\ \E i \in 1..Len(rt.outcomes) : rt.outcomes[i].kind = "rejected"

----------------------------------------------------------------------------
(* Properties of calculateDelayWithJitter (DelaySpec) *)

(* d <= initial * 2^i, decided by halving d instead of doubling initial *)
RECURSIVE WithinExponential(_, _, _)
WithinExponential(d, initial, i) ==
    IF i = 0 THEN d <= initial
    ELSE WithinExponential((d + 1) \div 2, initial, i - 1)

(* C21: for every attempt index i >= 0 and positive initialDelayMs and     *)
(* maxDelayMs the delay returned is an integer d with                      *)
(* 0 <= d <= min(maxDelayMs, initialDelayMs * 2^i), so never more than     *)
(* maxDelayMs however large i is.                                          *)
C21_DelayWithinBounds ==
    lastCall.op = "calculateDelayWithJitter"
    => /\ lastCall.ret \in Nat
       /\ lastCall.ret <= lastCall.maxDelayMs
       /\ WithinExponential(lastCall.ret, lastCall.initialDelayMs,
                            lastCall.attempt)

(* A call at the largest attempt index, far past the cap, with the largest  *)
(* draw: the delay is positive and within maxDelayMs                       *)
C21_Witness ==
    /\ lastCall.op = "calculateDelayWithJitter"
    /\ lastCall.attempt = MaxAttemptIndex
    /\ lastCall.initialDelayMs = initialRetryDelayMs
    /\ lastCall.maxDelayMs = maxRetryDelayMs
    /\ lastCall.random = RandomScale - 1
    /\ lastCall.ret > 0

(* C22: for every maxRetries >= 0 and a finite timeoutMs, a call of        *)
(* retryWithBackoff eventually returns, whatever the operation does: it    *)
(* may resolve, reject, or never settle, as long as the timers fire.       *)
C22_EventuallyReturns == (rt.pc # "idle") ~> (rt.pc = "returned")

(* Returned although no operation ever settled: every attempt of the       *)
(* largest run was ended by the timer.                                     *)
C22_Witness ==
    /\ rt.pc = "returned"
    /\ rt.options.maxRetries = MaxRetriesArg
    /\ Len(rt.outcomes) = MaxRetriesArg + 1
    /\ \A i \in 1..Len(rt.outcomes) : rt.outcomes[i].outcome = Pending

(* The reason a failed attempt leaves behind: the timeout message for an   *)
(* attempt ended by the timer, the operation's own message otherwise.      *)
ReasonOf(did) ==
    IF did.kind = "timedOut" THEN TimeoutMessage ELSE did.outcome.error

(* C23: an attempt that timed out counts as one failed attempt and is      *)
(* handled exactly like an attempt whose operation threw: with attempts    *)
(* left the loop records the reason and goes to sleep before the next      *)
(* attempt, on the last attempt the call returns success = false. The kind *)
(* of failure decides nothing but the reason recorded.                     *)
C23_TimeoutIsFailure ==
    [][LET n == Len(rt.outcomes)
       IN  (rt.pc = "awaiting" /\ Len(rt'.outcomes) = n + 1
                /\ rt'.outcomes[n + 1].kind \in {"timedOut", "rejected"})
           => /\ rt'.attempt = rt.attempt
              /\ rt'.invocations = rt.invocations
              /\ IF rt.attempt < rt.options.maxRetries
                 THEN /\ rt'.pc = "sleeping"
                      /\ rt'.lastError = ReasonOf(rt'.outcomes[n + 1])
                      /\ rt'.result = null
                 ELSE /\ rt'.pc = "returned"
                      /\ ~rt'.result.success
                      /\ rt'.result.error = ReasonOf(rt'.outcomes[n + 1])
                      /\ rt'.result.attempts = rt.options.maxRetries + 1
      ]_vars

(* A first attempt that timed out was retried, and the last attempt timed  *)
(* out as well and ended the call with success = false.                    *)
C23_Witness ==
    /\ rt.pc = "returned"
    /\ ~rt.result.success
    /\ Len(rt.outcomes) = MaxRetriesArg + 1
    /\ rt.outcomes[1].kind = "timedOut"
    /\ rt.outcomes[Len(rt.outcomes)].kind = "timedOut"
    /\ \E i \in 1..Len(rt.outcomes) : rt.outcomes[i].kind = "rejected"
    /\ rt.result.error = TimeoutMessage

(* C24: when retryWithBackoff returns success = false after having made   *)
(* attempts, its error is the failure reason of the last attempt (index    *)
(* maxRetries), whatever the earlier attempts failed with, and the 502     *)
(* response the handler builds from that result carries the same reason.   *)
C24_LastErrorReported ==
    (rt.pc = "returned" /\ ~rt.result.success /\ rt.options.maxRetries >= 0)
    => LET n == Len(rt.outcomes)
           out == relayFinish(NewReq, store, rt.result, now)
       IN  /\ n = rt.options.maxRetries + 1
           /\ rt.result.error = ReasonOf(rt.outcomes[n])
           /\ out.req.status = 502
           /\ out.req.response.error = ReasonOf(rt.outcomes[n])

(* Exhausted after attempts that failed for different reasons: the first   *)
(* was rejected with one message, the last with another.                   *)
C24_Witness ==
    /\ rt.pc = "returned"
    /\ ~rt.result.success
    /\ Len(rt.outcomes) = MaxRetriesArg + 1
    /\ rt.outcomes[1].kind = "rejected"
    /\ rt.outcomes[1].outcome.error = "e1"
    /\ rt.outcomes[2].kind = "timedOut"
    /\ rt.outcomes[Len(rt.outcomes)].kind = "rejected"
    /\ rt.result.error = "e2"

(* C25: within one call, attempt i+1 is started only by the backoff timer  *)
(* of attempt i, that is after attempt i has failed or timed out and the   *)
(* sleep over the delay computed for attempt i has ended; an attempt that  *)
(* succeeds, and the failed attempt of index maxRetries, make the call     *)
(* return in the very step in which they end, with no sleep in between.    *)
C25_DelayBetweenAttempts ==
    [][LET n == Len(rt.outcomes)
       IN  /\ (rt'.invocations = rt.invocations + 1 /\ rt.invocations >= 1)
               => /\ rt.pc = "sleeping"
                  /\ n = rt.invocations
                  /\ rt.outcomes[n].kind \in {"timedOut", "rejected"}
                  /\ rt'.attempt = rt.attempt + 1
                  /\ \E random \in Randoms :
                         rt.delay = calculateDelayWithJitter(
                                        rt.attempt, rt.options.initialDelayMs,
                                        rt.options.maxDelayMs, random)
           /\ Len(rt'.outcomes) = n + 1
               => IF rt'.outcomes[n + 1].kind = "resolved"
                     \/ rt.attempt = rt.options.maxRetries
                  THEN rt'.pc = "returned" /\ rt'.delay = 0
                  ELSE rt'.pc = "sleeping"
           /\ (rt'.pc = "returned" /\ rt.pc # "returned") => rt.pc # "sleeping"
      ]_vars

(* The second attempt was started after the first sleep and has failed: the *)
(* call sleeps over a delay drawn for attempt index 1.                     *)
C25_Witness ==
    /\ rt.pc = "sleeping"
    /\ rt.attempt = 1
    /\ rt.invocations = 2
    /\ rt.delay = ((RandomScale - 1) * (2 * initialRetryDelayMs)) \div RandomScale

Exhausts(h) == req[h].pc = "awaiting" /\ req'[h].status = 502

(* C27: when a relay with key k ends with its retries exhausted, the       *)
(* handler leaves the dedup record of k as it is, and that record is still *)
(* the in_flight record the request wrote, with its original cachedTime;   *)
(* every request with key k that arrives afterwards, before cachedTime +   *)
(* TTL, is answered 409 without reaching callDownstream.                   *)
C27_StaleRecordAfterExhaustion ==
    [][\A h \in Reqs :
        /\ (Exhausts(h) /\ Truthy(req[h].idempotencyKey))
            => /\ store' = store
               /\ req[h].idempotencyKey \in DOMAIN store'
               /\ store'[req[h].idempotencyKey] =
                      [cachedTime |-> req[h].startTime, status |-> "in_flight"]
        /\ \A h2 \in Reqs :
               (/\ h2 # h
                /\ Arrives(h2)
                /\ Truthy(req'[h2].idempotencyKey)
                /\ req[h].idempotencyKey = req'[h2].idempotencyKey
                /\ req[h].status = 502
                /\ now < req[h].startTime + idempotencyTtlMs)
               => /\ req'[h2].status = 409
                  /\ req'[h2].calls = 0]_vars

(* C29: the dequeue that follows a successful enqueue always returns an   *)
(* item, and it is the request the same handler has just enqueued, however *)
(* many handlers are interleaved; no request is answered with the 500 of   *)
(* 'Failed to dequeue'.                                                    *)
C29_DequeuesOwnItem ==
    \A h \in Reqs :
        /\ req[h].status # 500
        /\ (req[h].enqueues = 1 /\ req[h].status # 429)
            => /\ req[h].dequeues = 1
               /\ req[h].queueItem =
                      [data |-> [data |-> BodyOf(h),
                                 idempotencyKey |-> req[h].idempotencyKey],
                       enqueuedAt |-> req[h].startTime]

(* Every request is being processed at once, each holding its own item *)
C29_Witness ==
    /\ bq.capacity = MaxCapacity
    /\ \A h \in Reqs : InProcessing(h) /\ req[h].dequeues = 1

(* C30: the queue of the orchestrator is empty whenever a handler is       *)
(* suspended and whenever a request starts being handled, so for any       *)
(* capacity >= 1 and any number of concurrent requests no request is       *)
(* answered 429.                                                           *)
C30_QueueAlwaysEmpty ==
    /\ queue = <<>>
    /\ \A h \in Reqs : req[h].status # 429

(* More requests in processing at once than the queue has room for *)
C30_Witness ==
    /\ bq.constructed = "yes"
    /\ bq.capacity = 1
    /\ Cardinality({h \in Reqs : InProcessing(h)}) > bq.capacity
    /\ \E h \in Reqs : req[h].status = 200

----------------------------------------------------------------------------
(* Properties of the order of the orchestration steps (Spec) *)

(* The place of a step in the control flow of the handler *)
RankOf(step) ==
    CASE step = "get" -> 1
      [] step = "markInFlight" -> 2
      [] step = "enqueue" -> 3
      [] step = "dequeue" -> 4
      [] step = "callDownstream" -> 5
      [] step = "markCompleted" -> 6
      [] step = "response" -> 7

Did(h, step) == \E i \in 1..Len(req[h].trace) : req[h].trace[i] = step

(* C31: every request performs the orchestration steps in the order dedup  *)
(* lookup, markInFlight, enqueue, dequeue, downstream calls, markCompleted, *)
(* response, each at most once but for the downstream calls, of which      *)
(* there are at most maxRetries + 1; no downstream call is made before the *)
(* dedup check (for a keyed request) and the admission have passed, and    *)
(* markCompleted comes after the last downstream call.                     *)
C31_StepsInOrder ==
    \A h \in Reqs :
        LET trace == req[h].trace
        IN  /\ \A i, j \in 1..Len(trace) :
                   i < j => \/ RankOf(trace[i]) < RankOf(trace[j])
                            \/ /\ trace[i] = "callDownstream"
                               /\ trace[j] = "callDownstream"
            /\ Cardinality({i \in 1..Len(trace) : trace[i] = "callDownstream"})
                   <= maxRetries + 1
            /\ Did(h, "callDownstream")
                   => /\ Did(h, "enqueue") /\ Did(h, "dequeue")
                      /\ Truthy(req[h].idempotencyKey)
                             => Did(h, "get") /\ Did(h, "markInFlight")
            /\ Did(h, "markCompleted") => Did(h, "callDownstream")
            /\ Did(h, "markInFlight") => Did(h, "get")
            /\ Did(h, "dequeue") => Did(h, "enqueue")

(* A keyed request went through every step and needed a second downstream  *)
(* call                                                                    *)
C31_Witness ==
    \E h \in Reqs :
        req[h].trace = <<"get", "markInFlight", "enqueue", "dequeue",
                         "callDownstream", "callDownstream",
                         "markCompleted", "response">>

----------------------------------------------------------------------------
(* Properties of what reaches the client as a success (FairSpec) *)

(* The step ends the attempt request h is awaiting *)
Settles(h) == req[h].pc = "awaiting" /\ req'[h].pc # "awaiting"

(* The step answers request h with 200 *)
Succeeds(h) == req[h].status # 200 /\ req'[h].status = 200

(* The step answers h with success = true and the data of a downstream     *)
(* call of h that returns success = true in this step                      *)
FromOwnCall(h) ==
    /\ Settles(h)
    /\ failures' = failures
    /\ req[h].calls >= 1
    /\ req'[h].response.success
    /\ req'[h].response.data =
           [message |-> "Processed successfully",
            receivedData |-> BodyOf(h),
            timestamp |-> now]

(* A downstream result with success = false ends the attempt as a failed   *)
(* one: no 200, nothing cached                                             *)
FailureStaysFailure(h) ==
    (Settles(h) /\ failures' = failures + 1)
    => /\ req'[h].status # 200
       /\ req'[h].pc = "sleeping" \/ req'[h].status = 502
       /\ store' = store

(* C32 as stated: a request is answered 200 with success = true only if a  *)
(* downstream call of that very request returned success = true within the *)
(* deadline of its attempt, and the data answered is that call's data; a   *)
(* downstream result with success = false never reaches the client as a    *)
(* success and is never cached.                                            *)
C32_SuccessFromOwnCall ==
    [][\A h \in Reqs :
        /\ Succeeds(h) => FromOwnCall(h)
        /\ FailureStaysFailure(h)]_vars

(* C32 amended: a request is answered 200 with success = true only if a    *)
(* downstream call returned success = true within the deadline of its      *)
(* attempt, either a call of that very request, whose data it is answered  *)
(* with, or, when the request is answered from the cache without any call  *)
(* of its own, a call of an earlier request with the same key whose 200    *)
(* response it is given; a downstream result with success = false never    *)
(* reaches the client as a success and is never cached.                    *)
C32_SuccessFromDownstream ==
    [][\A h \in Reqs :
        /\ Succeeds(h)
            => \/ FromOwnCall(h)
               \/ /\ Arrives(h)
                  /\ req'[h].calls = 0
                  /\ \E g \in Reqs \ {h} :
                         /\ req[g].idempotencyKey = req'[h].idempotencyKey
                         /\ req[g].status = 200
                         /\ req[g].calls >= 1
                         /\ req'[h].response = req[g].response
        /\ FailureStaysFailure(h)]_vars

(* One request succeeded on a retry after a failed downstream result, and  *)
(* a later request with its key was answered its response from the cache  *)
C32_Witness ==
    \E g, h \in Reqs :
        /\ req[g].status = 200 /\ req[g].calls >= 2
        /\ req[h].status = 200 /\ req[h].calls = 0
        /\ req[h].response = req[g].response
        /\ req[g].response.data.receivedData = BodyOf(g)

----------------------------------------------------------------------------
(* Further properties of the IdempotencyStore (StoreSpec) *)

(* C33: when get(key) has reported a record absent because it had expired, *)
(* a following markInFlight(key) creates a record with status in_flight    *)
(* and cachedTime = now and nothing else, which get(key) returns as long   *)
(* as the time is at most that cachedTime + ttlMs and no longer afterwards: *)
(* the window restarts, nothing of the old record survives.                *)
C33_FreshWindowAfterExpiry ==
    [][(lastCall'.op = "markInFlight" /\ lastCall' # lastCall
            /\ lastCall'.afterExpiredGet)
       => LET k == lastCall'.key
              fresh == [cachedTime |-> now, status |-> "in_flight"]
          IN  /\ k \notin DOMAIN store
              /\ k \in DOMAIN store'
              /\ store'[k] = fresh
              /\ \A d \in {0, 1, idempotencyTtlMs} :
                     get(store', k, now + d) = [ret |-> fresh, store |-> store']
              /\ get(store', k, now + idempotencyTtlMs + 1).ret = null
      ]_vars

(* markInFlight has just made a fresh record for a key whose completed or  *)
(* in_flight record get had found expired and removed                      *)
C33_Witness ==
    /\ lastCall.op = "markInFlight"
    /\ lastCall.afterExpiredGet
    /\ lastCall.at = now
    /\ now > idempotencyTtlMs
    /\ store[lastCall.key] = [cachedTime |-> now, status |-> "in_flight"]

(* The step is a call of cleanup *)
CleanupStep == lastCall'.op = "cleanup" /\ lastCall' # lastCall

(* C34: cleanup removes every record with now > cachedTime + ttlMs and no  *)
(* other: after it no expired record is in the store, and every unexpired  *)
(* record is there, unchanged.                                             *)
C34_CleanupExact ==
    [][CleanupStep
       => /\ DOMAIN store' =
                 {k \in DOMAIN store : ~(now > store[k].cachedTime + idempotencyTtlMs)}
          /\ \A k \in DOMAIN store' :
                 /\ store'[k] = store[k]
                 /\ now <= store'[k].cachedTime + idempotencyTtlMs
      ]_vars

(* cleanup has just removed an expired record and kept an unexpired one *)
C34_Witness ==
    /\ lastCall.op = "cleanup"
    /\ lastCall.at = now
    /\ lastCall.sizeBefore > size(store)
    /\ size(store) >= 1

----------------------------------------------------------------------------
(* Properties of the periodic cleanup (StoreFairSpec) *)

(* The times a record can be created at *)
ClockValues ==
    {t \in {a * idempotencyTtlMs + b : a \in 0..MaxTicks, b \in 0..MaxTicks} :
        Ticks(t) <= MaxTicks}

(* The record of key k created at time c is in the store *)
Holds(k, c) == k \in DOMAIN store /\ store[k].cachedTime = c

(* The clock of the model has stopped before the record created at c      *)
(* expired                                                                 *)
ClockStopsBefore(c) ==
    Ticks(now) >= MaxTicks /\ now <= c + idempotencyTtlMs

(* C35: every record created in the store is eventually removed, whether   *)
(* or not its key is looked up again and whether it was completed or left  *)
(* in_flight by a request that failed, provided the clock advances past    *)
(* its expiry and the cleanup timer keeps firing.                          *)
C35_EveryRecordRemoved ==
    \A k \in StoreKeys, c \in ClockValues :
        Holds(k, c) ~> (~Holds(k, c) \/ ClockStopsBefore(c))

(* Every key had a record, all of them have expired and cleanup has just   *)
(* removed them                                                            *)
C35_Witness ==
    /\ lastCall.op = "cleanup"
    /\ lastCall.sizeBefore = Cardinality(StoreKeys)
    /\ size(store) = 0
    /\ now > idempotencyTtlMs

(* The step is a call of markInFlight, of markCompleted *)
MarkInFlightStep == lastCall'.op = "markInFlight" /\ lastCall' # lastCall

MarkCompletedStep == lastCall'.op = "markCompleted" /\ lastCall' # lastCall

(* C36: markInFlight(key) replaces whatever record the key has, an         *)
(* unexpired completed one included, by a record with status in_flight,    *)
(* cachedTime = now and neither data nor status code; it looks at no       *)
(* existing record, and it touches no other key.                           *)
C36_MarkInFlightReplaces ==
    [][MarkInFlightStep
       => LET k == lastCall'.key
          IN  /\ DOMAIN store' = DOMAIN store \cup {k}
              /\ store'[k] = [cachedTime |-> now, status |-> "in_flight"]
              /\ \A j \in DOMAIN store \ {k} : store'[j] = store[j]
      ]_vars

(* markInFlight has just replaced an unexpired completed record *)
C36_Witness ==
    /\ lastCall.op = "markInFlight"
    /\ lastCall.replaced = "completed"
    /\ lastCall.at = now
    /\ now > 0
    /\ store[lastCall.key] = [cachedTime |-> now, status |-> "in_flight"]

(* C37: markCompleted on a key the store holds no record of creates a     *)
(* completed record with cachedTime = now; on a key whose record is in the *)
(* store, be it expired and not yet removed, it completes that record in   *)
(* place and keeps its cachedTime. No other key is touched.                *)
C37_MarkCompletedInPlace ==
    [][MarkCompletedStep
       => LET k == lastCall'.key
          IN  /\ DOMAIN store' = DOMAIN store \cup {k}
              /\ store'[k].status = "completed"
              /\ DOMAIN store'[k] =
                     {"cachedTime", "status", "httpStatusCode", "data"}
              /\ store'[k].cachedTime =
                     IF k \in DOMAIN store THEN store[k].cachedTime ELSE now
              /\ \A j \in DOMAIN store \ {k} : store'[j] = store[j]
      ]_vars

(* markCompleted has just completed in place a record that had expired    *)
(* and was still in the store                                              *)
C37_Witness ==
    /\ lastCall.op = "markCompleted"
    /\ lastCall.replaced = "expired"
    /\ lastCall.at = now
    /\ store[lastCall.key].status = "completed"
    /\ isExpired(store[lastCall.key], now)

(* C38: in every state reached through markInFlight, markCompleted, get,   *)
(* cleanup and clear, a record has httpStatusCode and data if and only if  *)
(* its status is completed; an in_flight record has neither.               *)
C38_FieldsMatchStatus ==
    \A k \in DOMAIN store :
        /\ store[k].status \in {"in_flight", "completed"}
        /\ store[k].status = "completed"
               <=> {"httpStatusCode", "data"} \subseteq DOMAIN store[k]
        /\ store[k].status = "in_flight"
               => DOMAIN store[k] = {"cachedTime", "status"}

(* A completed record beside an in_flight one that markInFlight has just   *)
(* put in the place of a completed record                                  *)
C38_Witness ==
    /\ lastCall.op = "markInFlight"
    /\ lastCall.replaced = "completed"
    /\ store[lastCall.key].status = "in_flight"
    /\ \E k \in DOMAIN store :
           /\ store[k].status = "completed"
           /\ store[k].httpStatusCode \in StatusCodes
           /\ store[k].data \in Results

----------------------------------------------------------------------------
(* A further property of the BoundedQueue (QueueSpec) *)

(* The step is a call of dequeue *)
DequeueStep ==
    /\ Len(bq'.log) = Len(bq.log) + 1
    /\ bq'.log[Len(bq'.log)].op = "dequeue"

(* C39: dequeue on an empty queue returns null in the same step and leaves *)
(* the queue empty; dequeue on a non-empty queue returns the head item and *)
(* removes exactly it: the size goes down by one and the remaining items   *)
(* keep their order.                                                       *)
C39_DequeueRemovesHead ==
    [][DequeueStep
       => LET ret == bq'.log[Len(bq'.log)].ret
          IN  IF Len(bq.queue) = 0
              THEN ret = null /\ bq'.queue = <<>>
              ELSE /\ ret = bq.queue[1]
                   /\ queueSize(bq'.queue) = queueSize(bq.queue) - 1
                   /\ \A i \in 1..Len(bq'.queue) :
                          bq'.queue[i] = bq.queue[i + 1]
      ]_vars

(* dequeue found the queue empty once, and it has just taken the head of   *)
(* a queue of two different items, leaving the other                       *)
C39_Witness ==
    /\ bq.constructed = "yes"
    /\ Len(bq.log) >= 1
    /\ bq.log[Len(bq.log)].op = "dequeue"
    /\ bq.log[Len(bq.log)].ret # null
    /\ Len(bq.queue) = 1
    /\ bq.queue[1].data # bq.log[Len(bq.log)].ret.data
    /\ \E i \in 1..Len(bq.log) :
           bq.log[i].op = "dequeue" /\ bq.log[i].ret = null

====
